---- MODULE Spec2Model ----
\* Model of the dispute coordinator subsystem
\* (node/core/dispute-coordinator/src/lib.rs): the `run` loop, `run_iteration`,
\* `handle_new_activations` and `handle_incoming`, with the `db::v1` store
\* behind `note_current_session`.
EXTENDS Integers, Sequences, FiniteSets, TLC

\* ---------------------------------------------------------------- bounds
\* Largest session index the runtime API answers and the store is seeded with.
MaxSession == 20
\* Largest number of hashes in one ActiveLeaves update.
MaxLeaves == 2
\* Number of validators that may sign a statement.
NumValidators == 2

\* Largest body of a version 0 XCM value; version 1 has one body more.
MaxBody == 2

\* ------------------------------------------------------------- constants
\* A window that is one session too short.
DISPUTE_WINDOW_Short == 11

DISPUTE_WINDOW == 12

\* ------------------------------------------------------------ value sets
Sessions == 0..MaxSession
Hashes == {"h1", "h2"}
Candidates == {"cA", "cB"}
Validators == 0..(NumValidators - 1)
\* Sessions named by vote-coordinator requests.
RequestSessions == {DISPUTE_WINDOW}
\* The store the actor is started on holds the records of sessions lo..top:
\* nothing, sessions 0..12, or sessions 1..MaxSession.
SeedTops == {<< 1, 0 >>, << 0, DISPUTE_WINDOW >>, << 1, MaxSession >>}

\* Option<T>: None is the empty sequence, Some(x) the one-element sequence.
None == << >>
Some(x) == << x >>

\* Sequences of distinct-or-not hashes of length at most n.
LeafSeqs == UNION { [1..n -> Hashes] : n \in 0..MaxLeaves }

\* HashMap<(SessionIndex, CandidateHash), CandidateVotes>::new()
EmptyVotes == [k \in {} |-> {}]

\* A vote record as the store is seeded with it: the content is a function of
\* the key, so that a changed record is distinguishable from an unchanged one.
SeedRecord(s, c) ==
    [valid |-> {s % NumValidators}, invalid |-> IF c = "cA" THEN {} ELSE {(s + 1) % NumValidators}]

SeedVotes(lo, hi, cs) ==
    [k \in (lo..hi) \X cs |-> SeedRecord(k[1], k[2])]

\* No XCM value is being handled.
XcmIdle == [phase |-> "idle"]

\* ---------------------------------------------------------------- state
VARIABLES
    pc,               \* where the actor is: "recv", "query", "concluded", "closed", "panicked"
    highest_session,  \* State.highest_session : Option<SessionIndex>
    overlay,          \* State.overlay
    store,            \* the KeyValueDB column: current-session marker and vote records
    leaves,           \* the rest of new_activations, head = leaf whose query is outstanding
    msg,              \* the message last returned by ctx.recv()
    answers,          \* answers sent on the reply channel of msg
    last,             \* outcome of the last step, with the error traced by run (if any)
    seen_conclude,    \* a Conclude signal has been received
    max_ok,           \* largest session index a successful query has answered so far
    seeded,           \* the vote records the store held when the actor started
    answer,           \* what was sent on the reply channel of msg, None when nothing was
    xcm               \* the XCM value being wrapped or converted (second specification)

vars == << pc, highest_session, overlay, store, leaves, msg, answers, last,
           seen_conclude, max_ok, seeded, answer, xcm >>

\* ------------------------------------------------------- pure functions
\* The comparison the other way round.
IsNewSession_Reversed(hs, session) == hs = None \/ hs[1] > session

\* The first observed session taken for a known one: map_or(false, ..).
IsNewSession_NoneIsOld(hs, session) == hs # None /\ hs[1] < session

\* line 233: state.highest_session.map_or(true, |s| s < session)
IsNewSession(hs, session) == hs = None \/ hs[1] < session

\* Lower bound of the retained window for a current session: the first session
\* that is kept; it does not go below 0.
EarliestSession(session) ==
    IF session + 1 >= DISPUTE_WINDOW THEN session + 1 - DISPUTE_WINDOW ELSE 0

PruneVotes(votes, earliest) ==
    [k \in {k \in DOMAIN votes : k[1] >= earliest} |-> votes[k]]

\* db::v1::note_current_session(store, config, session) on success: records the
\* marker and prunes the rows of sessions that left the window.
note_current_session(st, session) ==
    [current_session |-> Some(session),
     candidate_votes |-> PruneVotes(st.candidate_votes, EarliestSession(session))]

\* Ok(true) not told from Ok(false): the loop goes on after Conclude.
RunNext_NoBreakOnConclude(res) ==
    IF res = "Err(Subsystem(Context))" THEN "closed" ELSE "recv"

\* run, lines 156-169: what the loop does with the result of run_iteration.
\* "recv": call run_iteration again; anything else: break.
RunNext(res) ==
    IF res = "Err(Subsystem(Context))" THEN "closed"
    ELSE IF res = "Ok(true)" THEN "concluded"
    ELSE "recv"

\* run_iteration, lines 183-187: the State every call starts from.
FreshHighest == None
FreshOverlay == EmptyVotes

Outcome(step, err) == [step |-> step, err |-> err]

\* ----------------------------------------------------------------- Init
Init ==
    /\ pc = "recv"
    /\ highest_session = FreshHighest
    /\ overlay = FreshOverlay
    /\ \E seed \in SeedTops :
          /\ store = [current_session |-> None,
                      candidate_votes |-> SeedVotes(seed[1], seed[2], Candidates)]
          /\ seeded = SeedVotes(seed[1], seed[2], Candidates)
    /\ leaves = << >>
    /\ msg = [kind |-> "None"]
    /\ answers = 0
    /\ last = Outcome("Init", "None")
    /\ seen_conclude = FALSE
    /\ max_ok = None
    /\ answer = None
    /\ xcm = XcmIdle

\* The error swallowed inside the for loop of handle_new_activations: the
\* next leaf is queried and the State is kept.
ReturnErr_Continues(e, step) ==
    /\ pc' = IF Len(leaves) > 1 THEN "query" ELSE RunNext(e)
    /\ highest_session' = highest_session
    /\ overlay' = overlay
    /\ leaves' = IF leaves = << >> THEN << >> ELSE Tail(leaves)
    /\ last' = Outcome(step, e)

\* The effect of run_iteration returning Err(e) to run: the error is traced and,
\* unless it is fatal, run_iteration is called again and builds a new State.
ReturnErr(e, step) ==
    /\ pc' = RunNext(e)
    /\ highest_session' = FreshHighest
    /\ overlay' = FreshOverlay
    /\ leaves' = << >>
    /\ last' = Outcome(step, e)

\* -------------------------------------------------------------- actions
\* line 190: ctx.recv() fails; `?` turns the SubsystemError into Error::Subsystem.
RecvError ==
    /\ pc = "recv"
    /\ \E e \in {"Err(Subsystem(Context))", "Err(Subsystem(Other))"} :
          ReturnErr(e, "RecvError")
    /\ UNCHANGED << store, msg, answers, seen_conclude, max_ok, seeded, answer, xcm >>

\* line 191: FromOverseer::Signal(OverseerSignal::Conclude) => return Ok(true)
RecvConclude ==
    /\ pc = "recv"
    /\ pc' = RunNext("Ok(true)")
    /\ msg' = [kind |-> "Conclude"]
    /\ seen_conclude' = TRUE
    /\ answers' = 0
    /\ last' = Outcome("Conclude", "None")
    \* when run does not break it calls run_iteration again
    /\ highest_session' = IF pc' = "recv" THEN FreshHighest ELSE highest_session
    /\ overlay' = IF pc' = "recv" THEN FreshOverlay ELSE overlay
    /\ UNCHANGED << store, leaves, max_ok, seeded, answer, xcm >>

\* The arm returning Ok(false) to run, which builds a new State.
RecvBlockFinalized_Returns ==
    /\ pc = "recv"
    /\ msg' = [kind |-> "BlockFinalized"]
    /\ answers' = 0
    /\ last' = Outcome("BlockFinalized", "None")
    /\ highest_session' = FreshHighest
    /\ overlay' = FreshOverlay
    /\ UNCHANGED << pc, store, leaves, seen_conclude, max_ok, seeded, answer, xcm >>

\* line 201: FromOverseer::Signal(OverseerSignal::BlockFinalized(_, _)) => {}
RecvBlockFinalized ==
    /\ pc = "recv"
    /\ msg' = [kind |-> "BlockFinalized"]
    /\ answers' = 0
    /\ last' = Outcome("BlockFinalized", "None")
    /\ UNCHANGED << pc, highest_session, overlay, store, leaves, seen_conclude, max_ok, seeded, answer, xcm >>

\* lines 192-200 and 222-229: an ActiveLeaves update is received; the session
\* index query for its first hash is sent, or the handler returns at once when
\* the update activates nothing.
RecvActiveLeaves ==
    /\ pc = "recv"
    /\ \E ls \in LeafSeqs :
          /\ msg' = [kind |-> "ActiveLeaves"]
          /\ leaves' = ls
          /\ pc' = IF ls = << >> THEN "recv" ELSE "query"
    /\ answers' = 0
    /\ last' = Outcome("ActiveLeaves", "None")
    /\ UNCHANGED << highest_session, overlay, store, seen_conclude, max_ok, seeded, answer, xcm >>

\* After the leaf at the head of `leaves` is done without error: the query of
\* the next leaf is sent (lines 222-229) or the handler returns Ok(()) (line 250).
NextLeaf ==
    /\ leaves' = Tail(leaves)
    /\ pc' = IF Tail(leaves) = << >> THEN "recv" ELSE "query"

\* The State living across calls of run_iteration: after a failed write of the
\* marker the raised highest session is still there.
SessionReply_KeepsRaised(session) ==
    /\ pc = "query"
    /\ IF IsNewSession(highest_session, session)
       THEN \/ /\ highest_session' = Some(session)
               /\ store' = note_current_session(store, session)
               /\ overlay' = overlay
               /\ last' = Outcome("SessionNew", "None")
               /\ NextLeaf
            \/ /\ \E e \in {"Err(Io)", "Err(Codec)"} :
                     /\ pc' = RunNext(e)
                     /\ last' = Outcome("StoreFailed", e)
               /\ highest_session' = Some(session)
               /\ overlay' = overlay
               /\ leaves' = << >>
               /\ store' = store
       ELSE /\ UNCHANGED << highest_session, overlay, store >>
            /\ last' = Outcome("SessionNoop", "None")
            /\ NextLeaf
    /\ max_ok' = IF max_ok = None \/ max_ok[1] < session THEN Some(session) ELSE max_ok
    /\ UNCHANGED << msg, answers, seen_conclude, seeded, answer, xcm >>

\* line 231: rx.await?? gives a session index; lines 233-247 act on it.
SessionReply(session) ==
    /\ pc = "query"
    /\ IF IsNewSession(highest_session, session)
       THEN \/ /\ highest_session' = Some(session)
               /\ store' = note_current_session(store, session)
               /\ overlay' = overlay
               /\ last' = Outcome("SessionNew", "None")
               /\ NextLeaf
            \* line 246: note_current_session(..)? fails, the store is as it was
            \/ /\ \E e \in {"Err(Io)", "Err(Codec)"} : ReturnErr(e, "StoreFailed")
               /\ store' = store
       ELSE /\ UNCHANGED << highest_session, overlay, store >>
            /\ last' = Outcome("SessionNoop", "None")
            /\ NextLeaf
    /\ max_ok' = IF max_ok = None \/ max_ok[1] < session THEN Some(session) ELSE max_ok
    /\ UNCHANGED << msg, answers, seen_conclude, seeded, answer, xcm >>

SessionReplyOk == \E session \in Sessions : SessionReply(session)

\* line 231: rx.await?? fails: the sender was dropped (oneshot::Canceled) or the
\* runtime API answered an error (RuntimeApiError).
SessionReplyErr ==
    /\ pc = "query"
    /\ \E e \in {"Err(Oneshot)", "Err(RuntimeApi)"} : ReturnErr(e, "QueryFailed")
    /\ UNCHANGED << store, msg, answers, seen_conclude, max_ok, seeded, answer, xcm >>

\* block_descriptions of DetermineUndisputedChain: per block after the base,
\* the (session, candidate) pairs the block includes.
BlockDescriptions ==
    { << {} >>, << {<< DISPUTE_WINDOW, "cB" >>} >>, << {}, {<< DISPUTE_WINDOW, "cB" >>} >> }

\* The requests of DisputeCoordinatorMessage, lines 260-292.
Requests ==
    { [kind |-> "ImportStatements", session |-> s, candidate |-> c,
       validator |-> v, valid |-> b, has_reply |-> FALSE] :
         s \in RequestSessions, c \in Candidates, v \in Validators, b \in BOOLEAN }
    \cup { [kind |-> "ActiveDisputes", has_reply |-> TRUE] }
    \cup { [kind |-> "QueryCandidateVotes", session |-> s, candidate |-> c, has_reply |-> TRUE] :
         s \in RequestSessions, c \in Candidates }
    \cup { [kind |-> "IssueLocalStatement", session |-> s, candidate |-> c,
            valid |-> b, has_reply |-> FALSE] :
         s \in RequestSessions, c \in Candidates, b \in BOOLEAN }
    \cup { [kind |-> "DetermineUndisputedChain", base_number |-> 100,
            block_descriptions |-> ds, has_reply |-> TRUE] : ds \in BlockDescriptions }

\* lines 202-210 and 253-295: every arm of handle_incoming is unimplemented!(),
\* which panics: the task of the actor unwinds, the message and its reply
\* channel are dropped unanswered, no state is written.
RecvCommunication ==
    /\ pc = "recv"
    /\ \E m \in Requests : msg' = m
    /\ pc' = "panicked"
    /\ answers' = 0
    /\ last' = Outcome("Communication", "panic")
    /\ UNCHANGED << highest_session, overlay, store, leaves, seen_conclude, max_ok, seeded, answer, xcm >>

Next ==
    \/ RecvError
    \/ RecvConclude
    \/ RecvBlockFinalized
    \/ RecvActiveLeaves
    \/ SessionReplyOk
    \/ SessionReplyErr
    \/ RecvCommunication

Spec == Init /\ [][Next]_vars

\* ========================================= xcm/src/lib.rs: versioned values
\* The four versioned enums: VersionedMultiLocation, VersionedMultiAsset,
\* VersionedMultiAssets, VersionedXcm.
XcmTypes == {"MultiLocation", "MultiAsset", "MultiAssets", "Xcm"}

\* The values of v0::T and of v1::T. Body 0 of version 1 is a construct that
\* version 0 cannot express.
V0Values(ty) == [ty : {ty}, v : {0}, body : 0..MaxBody]
V1Values(ty) == [ty : {ty}, v : {1}, body : 0..(MaxBody + 1)]

\* Result<T, ()>
Ok(x) == << "Ok", x >>
Err == << "Err" >>

\* The enum variants V0(x) and V1(x).
V0(x) == [tag |-> "V0", val |-> x]
V1(x) == [tag |-> "V1", val |-> x]

\* v0::T -> v1::T (the TryFrom of the v1 module): every version 0 value has a
\* version 1 form.
Upgrade(x) == Ok([ty |-> x.ty, v |-> 1, body |-> x.body + 1])

\* v1::T -> v0::T (the TryFrom of the v0 module): fails for what version 0
\* cannot express.
Downgrade(y) ==
    IF y.body >= 1 THEN Ok([ty |-> y.ty, v |-> 0, body |-> y.body - 1]) ELSE Err

\* From<v0::T> and From<v1::T> for the versioned enum: xcm.into().
IntoVersioned(x) == IF x.v = 0 THEN V0(x) ELSE V1(x)

\* The arms of the match the wrong way round.
TryFromForV0_Swapped(x) == IF x.tag = "V0" THEN Downgrade(x.val) ELSE Ok(x.val)

\* TryFrom<Versioned*> for v0::T, lines 78-87, 122-131, 168-177, 212-220.
TryFromForV0(x) == IF x.tag = "V0" THEN Ok(x.val) ELSE Downgrade(x.val)

\* TryFrom<Versioned*> for v1::T, lines 89-98, 133-142, 179-188, 222-230.
TryFromForV1(x) == IF x.tag = "V0" THEN Upgrade(x.val) ELSE Ok(x.val)

\* impl WrapVersion for (), lines 241-248.
WrapUnit(dest, x) == Ok(IntoVersioned(x))

\* The message sent as it was authored, without the conversion.
WrapAlwaysV0_NoConvert(dest, x) == Ok(IntoVersioned(x))

\* impl WrapVersion for AlwaysV0, lines 252-259: `?` returns the error.
WrapAlwaysV0(dest, x) ==
    LET r == TryFromForV0(IntoVersioned(x)) IN IF r = Err THEN Err ELSE Ok(V0(r[2]))

\* impl WrapVersion for AlwaysV1 (AlwaysLatest), lines 263-273.
WrapAlwaysV1(dest, x) ==
    LET r == TryFromForV1(IntoVersioned(x)) IN IF r = Err THEN Err ELSE Ok(V1(r[2]))

\* A value of either version and a destination are given.
XcmInputs ==
    [phase : {"input"},
     input : UNION {V0Values(ty) \cup V1Values(ty) : ty \in XcmTypes},
     dest : [ty : {"MultiLocation"}, v : {1}, body : 0..1]]

XcmInit ==
    /\ xcm \in XcmInputs
    /\ pc = "recv"
    /\ highest_session = FreshHighest
    /\ overlay = FreshOverlay
    /\ store = [current_session |-> None, candidate_votes |-> EmptyVotes]
    /\ seeded = EmptyVotes
    /\ leaves = << >>
    /\ msg = [kind |-> "None"]
    /\ answers = 0
    /\ last = Outcome("Init", "None")
    /\ seen_conclude = FALSE
    /\ max_ok = None
    /\ answer = None

ActorVars == << pc, highest_session, overlay, store, leaves, msg, answers, last,
                seen_conclude, max_ok, seeded, answer >>

Wrapped(policy, result) ==
    [phase |-> "wrapped", policy |-> policy, input |-> xcm.input, dest |-> xcm.dest,
     result |-> result]

\* <() as WrapVersion>::wrap_version(dest, xcm)
XcmWrapUnit ==
    /\ xcm.phase = "input" /\ xcm.input.ty = "Xcm"
    /\ xcm' = Wrapped("()", WrapUnit(xcm.dest, xcm.input))
    /\ UNCHANGED ActorVars

\* AlwaysV0::wrap_version(dest, xcm)
XcmWrapAlwaysV0 ==
    /\ xcm.phase = "input" /\ xcm.input.ty = "Xcm"
    /\ xcm' = Wrapped("AlwaysV0", WrapAlwaysV0(xcm.dest, xcm.input))
    /\ UNCHANGED ActorVars

\* AlwaysV1::wrap_version(dest, xcm)
XcmWrapAlwaysV1 ==
    /\ xcm.phase = "input" /\ xcm.input.ty = "Xcm"
    /\ xcm' = Wrapped("AlwaysV1", WrapAlwaysV1(xcm.dest, xcm.input))
    /\ UNCHANGED ActorVars

Converted(target, result) ==
    [phase |-> "converted", target |-> target, input |-> xcm.input,
     versioned |-> IntoVersioned(xcm.input), result |-> result]

\* v0::T::try_from(versioned), the value wrapped in the variant of its version
XcmTryFromForV0 ==
    /\ xcm.phase = "input"
    /\ xcm' = Converted(0, TryFromForV0(IntoVersioned(xcm.input)))
    /\ UNCHANGED ActorVars

\* v1::T::try_from(versioned)
XcmTryFromForV1 ==
    /\ xcm.phase = "input"
    /\ xcm' = Converted(1, TryFromForV1(IntoVersioned(xcm.input)))
    /\ UNCHANGED ActorVars

XcmNext ==
    \/ XcmWrapUnit
    \/ XcmWrapAlwaysV0
    \/ XcmWrapAlwaysV1
    \/ XcmTryFromForV0
    \/ XcmTryFromForV1

SpecXcm == XcmInit /\ [][XcmNext]_vars

\* ================================================================ claims
Running == pc \in {"recv", "query"}
NonFatalErrors ==
    {"Err(RuntimeApi)", "Err(Oneshot)", "Err(Io)", "Err(Codec)", "Err(Subsystem(Other))"}
Votes(st) == st.candidate_votes
RecordSessions(votes) == {k[1] : k \in DOMAIN votes}

\* C1: an error raised while processing a message never ends the loop (after a
\* non-fatal error the actor is receiving again), and the actor stops only on
\* the Conclude signal or on the error that reports its inbound channel closed.
C1_OnlyConcludeOrClosedStops ==
    /\ last.err \in NonFatalErrors => pc = "recv"
    /\ ~Running =>
          \/ pc = "concluded" /\ msg.kind = "Conclude"
          \/ pc = "closed" /\ last.err = "Err(Subsystem(Context))"

\* C2: once Conclude has been received the actor is Terminating (the loop has
\* exited) and nothing happens any more: no message is consumed, no session
\* index query is sent, the store is not written.
C2_ConcludeEndsEverything ==
    /\ [](seen_conclude => pc = "concluded")
    /\ [][seen_conclude =>
            UNCHANGED << pc, highest_session, overlay, store, leaves, msg, answers >>]_vars

\* Conclude arrives after a session was noted and records were pruned.
C2_Witness ==
    /\ pc = "concluded"
    /\ seen_conclude
    /\ store.current_session # None
    /\ Votes(store) # seeded

\* C3: the tracked highest session starts empty, is never cleared and never
\* decreases once set, and always equals the largest session index a
\* successful session index query has answered so far.
C3_HighestIsLargestReturned ==
    /\ [](highest_session = max_ok)
    /\ [][highest_session # None =>
            highest_session' # None /\ highest_session'[1] >= highest_session[1]]_vars

\* C4: a session index that is not above the tracked highest session changes
\* nothing: highest session, marker, vote records and overlay stay as they
\* are, so a second leaf of the same session leaves the state of the first.
C4_NoRegression ==
    [][\A s \in Sessions :
          (/\ pc = "query" /\ highest_session # None /\ s <= highest_session[1]
           /\ SessionReply(s))
             => /\ highest_session' = highest_session
                /\ store' = store
                /\ overlay' = overlay]_vars

\* A second leaf of the current session was activated while records are stored.
C4_Witness ==
    /\ last.step = "SessionNoop"
    /\ highest_session # None
    /\ highest_session = max_ok
    /\ store.current_session = highest_session
    /\ Votes(store) # EmptyVotes

\* C5: a failed session index query mutates no state: highest session,
\* overlay, marker and vote records are after the failure what they were
\* before the leaf was processed.
C5_QueryFailureMutatesNothing ==
    [][SessionReplyErr =>
          /\ highest_session' = highest_session
          /\ overlay' = overlay
          /\ store' = store]_vars

\* C6: after an advance has processed (the store write succeeded) a session s
\* above the tracked highest session, or the first session, no vote record of
\* a session below s - 12 + 1 is left in the store or in the overlay.
C6_WindowMonotonicity ==
    [][\A s \in Sessions :
          (/\ pc = "query"
           /\ highest_session = None \/ highest_session[1] < s
           /\ last'.err = "None"
           /\ SessionReply(s))
             => \A k \in DOMAIN Votes(store') \cup DOMAIN overlay' : k[1] >= s - 12 + 1]_vars

\* An advance beyond the window has pruned records the store was seeded with.
C6_Witness ==
    /\ last.step = "SessionNew"
    /\ highest_session # None
    /\ highest_session[1] >= 12
    /\ \E k \in DOMAIN seeded : k[1] < highest_session[1] - 12 + 1
    /\ \A k \in DOMAIN Votes(store) : k[1] >= highest_session[1] - 12 + 1
    /\ Votes(store) # EmptyVotes

\* C7: a vote record leaves the store, or changes, only in an advance to a
\* session s with record.session < s - 12 + 1; so every record of a session
\* >= s - 11 is still there, unchanged, after the advance.
C7_PruneOnlyExpired ==
    [][Votes(store') # Votes(store) => \A k \in DOMAIN Votes(store) :
          (k \notin DOMAIN Votes(store') \/ Votes(store')[k] # Votes(store)[k])
             => \E s \in Sessions :
                   /\ SessionReply(s)
                   /\ store'.current_session = Some(s)
                   /\ k[1] < s - 12 + 1]_vars

\* Sessions 1..20 were seeded; the advance to 20 has left exactly 9..20.
C7_Witness ==
    /\ RecordSessions(seeded) = 1..20
    /\ last.step = "SessionNew"
    /\ store.current_session = Some(20)
    /\ RecordSessions(Votes(store)) = 9..20
    /\ \A k \in DOMAIN seeded : k[1] >= 9 => k \in DOMAIN Votes(store) /\ Votes(store)[k] = seeded[k]

\* C8: a request that carries a reply channel gets exactly one answer on it,
\* and processing a request does not stop the actor.
C8_ExactlyOneAnswer ==
    (msg.kind \in {"ActiveDisputes", "QueryCandidateVotes", "DetermineUndisputedChain"})
       => answers = 1 /\ pc # "panicked"

\* The record a lookup of (session, candidate) finds: overlay first, then store.
LoadVotes(ov, st, key) ==
    IF key \in DOMAIN ov THEN Some(ov[key])
    ELSE IF key \in DOMAIN Votes(st) THEN Some(Votes(st)[key])
    ELSE None

\* C9: importing a statement leaves a vote record for (session, candidate), in
\* the overlay and in the store, that holds the statement's validator, and the
\* actor can take the same import again, which must leave that record as it is.
C9_ImportLeavesSameRecord ==
    msg.kind = "ImportStatements" =>
       LET key == << msg.session, msg.candidate >> IN
       /\ pc = "recv"
       /\ key \in DOMAIN overlay
       /\ key \in DOMAIN Votes(store)
       /\ overlay[key] = Votes(store)[key]
       /\ msg.validator \in overlay[key].valid \cup overlay[key].invalid

\* C10: no validator is on both sides of a vote record, and the first statement
\* of a validator wins: imported for a validator that is on neither side of
\* the record, the statement puts the validator on the side it asserts.
C10_OneSideFirstWins ==
    /\ [](\A k \in DOMAIN Votes(store) : Votes(store)[k].valid \cap Votes(store)[k].invalid = {})
    /\ [](\A k \in DOMAIN overlay : overlay[k].valid \cap overlay[k].invalid = {})
    /\ [][(RecvCommunication /\ msg'.kind = "ImportStatements") =>
            LET key == << msg'.session, msg'.candidate >>
                old == LoadVotes(overlay, store, key)
                new == LoadVotes(overlay', store', key)
                absent == old = None \/ msg'.validator \notin old[1].valid \cup old[1].invalid
            IN  absent =>
                  /\ new # None
                  /\ msg'.validator \in (IF msg'.valid THEN new[1].valid ELSE new[1].invalid)]_vars

\* C14: an advance to a session below the window size 12 deletes no vote
\* record, and the lower bound of the window is 0 for it: s - 12 + 1 does not
\* wrap around.
C14_NoPruneBelowWindow ==
    [][(/\ pc = "query"
        /\ last'.step = "SessionNew"
        /\ store'.current_session[1] < 12)
          => /\ SessionReply(store'.current_session[1])
             /\ Votes(store') = Votes(store)
             /\ EarliestSession(store'.current_session[1]) = 0]_vars

\* Session 11 was noted over a store seeded from session 0 on: all is kept.
C14_Witness ==
    /\ last.step = "SessionNew"
    /\ store.current_session = Some(11)
    /\ highest_session = Some(11)
    /\ \E k \in DOMAIN seeded : k[1] = 0
    /\ Votes(store) = seeded

\* C16: a block-finalized signal changes neither the tracked highest session,
\* nor the overlay, nor marker and vote records, sends no query, and the actor
\* goes on receiving.
C16_BlockFinalizedNoop ==
    [][(msg'.kind = "BlockFinalized" /\ last'.step = "BlockFinalized") =>
          /\ pc = "recv" /\ pc' = "recv"
          /\ highest_session' = highest_session
          /\ overlay' = overlay
          /\ store' = store
          /\ leaves' = leaves /\ leaves' = << >>
          /\ answer' = answer]_vars

\* A block was finalized while a session is tracked and records are stored.
C16_Witness ==
    /\ last.step = "BlockFinalized"
    /\ pc = "recv"
    /\ highest_session # None
    /\ store.current_session = highest_session
    /\ Votes(store) # EmptyVotes

\* C17: while the actor waits for its next inbound message the tracked highest
\* session is unset or equals the persisted marker.
C17_HighestMatchesMarker ==
    pc = "recv" => (highest_session = None \/ highest_session = store.current_session)

\* The write of the marker has failed for a session above the persisted one.
C17_Witness ==
    /\ pc = "recv"
    /\ last.step = "StoreFailed"
    /\ store.current_session # None
    /\ max_ok # None
    /\ max_ok[1] > store.current_session[1]
    /\ highest_session = None

\* C18: the persisted marker never decreases: every write stores a session
\* index at least as large as the one it replaces.
C18_MarkerNeverDecreases ==
    [][store.current_session # None =>
          /\ store'.current_session # None
          /\ store'.current_session[1] >= store.current_session[1]]_vars

\* C19: a query is outstanding exactly while pc = "query", for the hash at the
\* head of `leaves`: the next query is sent only after the current one was
\* answered without error and is for the next hash; the handler returns
\* without error only after the last hash; a failure (of the query or of the
\* marker write) ends the handling, drops the remaining hashes unqueried, and
\* leaves marker and records as the hashes before it left them.
C19_OneLeafAtATime ==
    [][pc = "query" =>
          /\ leaves # << >>
          /\ pc' = "query" => (leaves' = Tail(leaves) /\ leaves' # << >> /\ last'.err = "None")
          /\ (pc' = "recv" /\ last'.err = "None") => Tail(leaves) = << >>
          /\ last'.err # "None" => (pc' = "recv" /\ leaves' = << >> /\ store' = store)]_vars

\* A query has failed after a session was noted and records were pruned.
C19_Witness ==
    /\ last.step = "QueryFailed"
    /\ pc = "recv"
    /\ leaves = << >>
    /\ store.current_session # None
    /\ Votes(store) # seeded

\* The records a request sees: the overlay entry where there is one, the store
\* row otherwise.
AllVotes(ov, st) ==
    [k \in DOMAIN ov \cup DOMAIN Votes(st) |-> LoadVotes(ov, st, k)[1]]

\* The supermajority of n validators: more than two thirds.
SupermajorityThreshold(n) == n - ((n - 1) \div 3)

\* Dispute status of a record (spec section 3).
IsActiveDispute(rec) ==
    /\ rec.valid # {} /\ rec.invalid # {}
    /\ Cardinality(rec.valid) < SupermajorityThreshold(NumValidators)
    /\ Cardinality(rec.invalid) < SupermajorityThreshold(NumValidators)
IsConcludedInvalid(rec) ==
    Cardinality(rec.invalid) >= SupermajorityThreshold(NumValidators)

CandidateRank(c) == IF c = "cA" THEN 1 ELSE 2
KeyLess(a, b) == a[1] < b[1] \/ (a[1] = b[1] /\ CandidateRank(a[2]) < CandidateRank(b[2]))

\* seq lists exactly the elements of S, session ascending then candidate ascending.
IsSortedListOf(seq, S) ==
    /\ DOMAIN seq = 1..Cardinality(S)
    /\ {seq[i] : i \in DOMAIN seq} = S
    /\ \A i \in DOMAIN seq : i + 1 \in DOMAIN seq => KeyLess(seq[i], seq[i + 1])

\* C11: Query Candidate Votes is answered, once, with the record of (session,
\* candidate), or with absent when there is none, and changes neither overlay
\* nor store; and after a first import of (validator v, valid) for a pair the
\* record read for the pair has v on the valid side and nobody on the invalid side.
C11_QueryReflectsImports ==
    /\ [][(RecvCommunication /\ msg'.kind = "QueryCandidateVotes") =>
            /\ answers' = 1
            /\ answer' = Some(LoadVotes(overlay, store, << msg'.session, msg'.candidate >>))
            /\ overlay' = overlay
            /\ store' = store
            /\ pc' = "recv"]_vars
    /\ [][(/\ RecvCommunication
           /\ msg'.kind = "ImportStatements"
           /\ msg'.valid
           /\ LoadVotes(overlay, store, << msg'.session, msg'.candidate >>) = None) =>
            /\ LoadVotes(overlay', store', << msg'.session, msg'.candidate >>)
                  = Some([valid |-> {msg'.validator}, invalid |-> {}])
            /\ pc' = "recv"]_vars

\* C12: Active Disputes is answered with exactly the tracked (session,
\* candidate) pairs whose record has both sides non-empty and no side at the
\* supermajority, session ascending then candidate ascending; a candidate with
\* statements on one side only is not in the answer.
C12_ActiveDisputesExact ==
    [][(RecvCommunication /\ msg'.kind = "ActiveDisputes") =>
          LET votes == AllVotes(overlay, store)
              active == {k \in DOMAIN votes : IsActiveDispute(votes[k])}
          IN  /\ answers' = 1
              /\ answer' # None
              /\ IsSortedListOf(answer'[1], active)
              /\ \A i \in DOMAIN answer'[1] :
                    votes[answer'[1][i]].valid # {} /\ votes[answer'[1][i]].invalid # {}]_vars

\* The number Determine Undisputed Chain is to answer: the tip when no block
\* is implicated, else the block before the lowest implicated one.
UndisputedNumber(base, ds, votes) ==
    LET implicated == {i \in DOMAIN ds :
                         \E k \in ds[i] : k \in DOMAIN votes /\ IsConcludedInvalid(votes[k])}
    IN  IF implicated = {} THEN base + Len(ds)
        ELSE base + (CHOOSE i \in implicated : \A j \in implicated : i <= j) - 1

\* C13: Determine Undisputed Chain is answered with a block number between
\* base and the tip: the tip when no described block includes a
\* concluded-invalid candidate, otherwise the block just before the lowest
\* such block (base itself when the first described block is implicated).
C13_UndisputedChainInRange ==
    [][(RecvCommunication /\ msg'.kind = "DetermineUndisputedChain") =>
          LET base == msg'.base_number
              ds == msg'.block_descriptions
          IN  /\ answers' = 1
              /\ answer' # None
              /\ answer'[1] = UndisputedNumber(base, ds, AllVotes(overlay, store))
              /\ base <= answer'[1] /\ answer'[1] <= base + Len(ds)]_vars

\* C15: the unit policy returns the message in the version it was authored in
\* and never fails; AlwaysV0 returns an error or a V0-tagged message, AlwaysV1
\* an error or a V1-tagged message; a message already in the target version
\* comes back unchanged, without error. The destination plays no part.
C15_WrapVersionPolicies ==
    xcm.phase = "wrapped" =>
       LET x == xcm.input
           r == xcm.result
       IN  /\ xcm.policy = "()" =>
                 r = Ok([tag |-> IF x.v = 0 THEN "V0" ELSE "V1", val |-> x])
           /\ xcm.policy = "AlwaysV0" =>
                 /\ r = Err \/ (r[1] = "Ok" /\ r[2].tag = "V0" /\ r[2].val.v = 0)
                 /\ x.v = 0 => r = Ok([tag |-> "V0", val |-> x])
           /\ xcm.policy = "AlwaysV1" =>
                 /\ r = Err \/ (r[1] = "Ok" /\ r[2].tag = "V1" /\ r[2].val.v = 1)
                 /\ x.v = 1 => r = Ok([tag |-> "V1", val |-> x])

\* AlwaysV0 has converted a version 1 message and sent it as V0.
C15_Witness ==
    /\ xcm.phase = "wrapped"
    /\ xcm.policy = "AlwaysV0"
    /\ xcm.input.v = 1
    /\ xcm.result # Err
    /\ xcm.result[2].tag = "V0"

\* C20: a value wrapped in the variant of its own version converts back to
\* that version as itself, without error, for each of the four versioned
\* enums; an error comes only from a conversion across versions.
C20_SameVersionRoundTrip ==
    xcm.phase = "converted" =>
       LET x == xcm.input IN
       /\ xcm.versioned.tag = (IF x.v = 0 THEN "V0" ELSE "V1")
       /\ xcm.versioned.val = x
       /\ x.v = xcm.target => xcm.result = Ok(x)
       /\ xcm.result = Err => x.v # xcm.target

\* A Vec<v0::MultiAsset> wrapped as V0 was converted back to version 0.
C20_Witness ==
    /\ xcm.phase = "converted"
    /\ xcm.input.ty = "MultiAssets"
    /\ xcm.input.v = 0
    /\ xcm.input.body > 0
    /\ xcm.target = 0
    /\ xcm.result = Ok(xcm.input)

====
